---- MODULE Spec2Model ----
(***************************************************************************)
(* A model of the booking ELT pipeline:                                    *)
(*   paginated fetch -> reference enrichment -> flattening -> upsert.      *)
(*                                                                         *)
(* JSON values are tagged records [t, v]: "null", "num", "str", "arr"     *)
(* (v a sequence of values) and "obj" (v a sequence of <<key, value>>     *)
(* pairs in insertion order, as a Python dict keeps them).  A Python dict  *)
(* of strings (uri_dict, a flat record) is the same kind of pair list.     *)
(***************************************************************************)
EXTENDS Integers, Sequences, FiniteSets, TLC

VARIABLES
    \* --- ReferenceEnricher: process_bookings_async / enrich_record
    rawRecords,    \* the records as fetch_booking_data_paged returned them
    bookings,      \* the same list, each record mutated by record.update
    enr_i,         \* index of the record the for loop is at
    enrPc,         \* "next" | "gather" | "done"
    tasks,         \* the coroutines handed to asyncio.gather
    processed,     \* flat records appended so far
    enrLog,        \* per processed record: keys, urls, outcomes, extra
    subRequests,   \* every sub-resource URL requested, in order
    \* --- PaginatedFetcher: fetch_booking_data_paged / fetch_booking_data
    variant,       \* "paged" (local_test pipeline) | "static" (Stat_API)
    pages,         \* what the listing endpoint serves at each page URL
    next_url,      \* next_url / api_url of the while loop
    all_bookings,  \* items accumulated so far
    fetched_urls,  \* the global dedup set of static_req.py
    pageRequests,  \* every page URL requested, in order
    pgPc,          \* "loop" | "returned" | "raised"
    pgResult,      \* what the caller of the fetch function receives
    \* --- UpsertEngine: insert_bookings_into_db
    flats,         \* the flat records handed to insert_bookings_into_db
    dbPc,          \* "connect" | "loop" | "done" | "noconn"
    rec_k,         \* index of the record the for loop is at
    step,          \* position inside process_flattened_record
    arr_i,         \* i of the for loop of upsert_array_entities
    tx,            \* the tables as the open transaction sees them
    committed,     \* the tables as committed
    outcome,       \* per record: "pending" | "writing" | "committed" | "rolledback"
    recStart,      \* the tables when the current record's try block began
    stmts,         \* every statement issued on the cursor, in order
    \* --- Flattener: one call of flatten_dict
    flatIn,        \* the dict passed as d
    flatOut,       \* the dict returned
    flatPc,        \* "idle" | "call" | "returned"
    \* --- load_s.py: one call of bulk_insert
    bulkData,      \* data: the rows to merge into one table
    bulkTable,     \* the rows of the table
    bulkPc,        \* "idle" | "start" | "individual" | "done"
    bulk_idx,      \* idx of the individual-insert loop (from 1)
    bulkLog,       \* every statement sent to the cursor, in order
    \* --- run_main_loop
    date_1,        \* start of the next window
    next_date,     \* end of the window main() is called for
    current_time,  \* datetime.now() taken before the loop
    START_DATE,    \* the global main() reads
    END_DATE,      \* the global main() reads
    loopPc,        \* "idle" | "test" | "main" | "done" | "raised"
    windows        \* per call of main(): the window and how main() ended

enrichVars == <<rawRecords, bookings, enr_i, enrPc, tasks, processed, enrLog,
                subRequests>>

pageVars == <<variant, pages, next_url, all_bookings, fetched_urls,
              pageRequests, pgPc, pgResult>>

dbVars == <<flats, dbPc, rec_k, step, arr_i, tx, committed, outcome,
            recStart, stmts>>

flattenVars == <<flatIn, flatOut, flatPc>>

bulkVars == <<bulkData, bulkTable, bulkPc, bulk_idx, bulkLog>>

loopVars == <<date_1, next_date, current_time, START_DATE, END_DATE, loopPc,
              windows>>

vars == <<enrichVars, pageVars, dbVars, flattenVars, bulkVars, loopVars>>

\* ------------------------------------------------------------------------
\* Bounds of the model
\* ------------------------------------------------------------------------
MaxBookings == 2
MaxRequests == 4
MaxRecords == 2

\* ------------------------------------------------------------------------
\* JSON values and Python dict operations
\* ------------------------------------------------------------------------
None == [t |-> "null", v |-> 0]
Num(n) == [t |-> "num", v |-> n]
Str(s) == [t |-> "str", v |-> s]
Arr(s) == [t |-> "arr", v |-> s]
Obj(s) == [t |-> "obj", v |-> s]

isinstance_dict(x) == x.t = "obj"
isinstance_list(x) == x.t = "arr"
isinstance_str(x) == x.t = "str"

\* "key in d"
has(d, key) == \E n \in 1..Len(d) : d[n][1] = key

\* d[key]
item(d, key) == d[CHOOSE n \in 1..Len(d) : d[n][1] = key][2]

\* d.get(key)
get(d, key) == IF has(d, key) THEN item(d, key) ELSE None

\* d[key] = value : an existing key keeps its position, a new key is appended
put(d, key, value) ==
    IF has(d, key)
    THEN [d EXCEPT ![CHOOSE n \in 1..Len(d) : d[n][1] = key] = <<key, value>>]
    ELSE Append(d, <<key, value>>)

\* d.update(e)
RECURSIVE update(_, _)
update(d, e) ==
    IF e = <<>> THEN d
    ELSE update(put(d, Head(e)[1], Head(e)[2]), Tail(e))

keys(d) == {d[n][1] : n \in 1..Len(d)}

\* s.startswith("http")
startswith_http(s) == Len(s) >= 4 /\ SubSeq(s, 1, 4) = "http"

\* s.rstrip(".")
RECURSIVE rstrip_dot(_)
rstrip_dot(s) ==
    IF Len(s) > 0 /\ SubSeq(s, Len(s), Len(s)) = "."
    THEN rstrip_dot(SubSeq(s, 1, Len(s) - 1))
    ELSE s

\* ------------------------------------------------------------------------
\* flatten_dict
\* ------------------------------------------------------------------------
RECURSIVE flatten_dict(_, _)
RECURSIVE flatten_dict_list(_, _, _, _)
RECURSIVE flatten_dict_items(_, _, _, _)

\* for i, item in enumerate(value): ...   (n = i + 1)
flatten_dict_list(value, new_key, n, items) ==
    IF n > Len(value) THEN items
    ELSE LET it == value[n]
             ikey == new_key \o "." \o ToString(n - 1)
         IN flatten_dict_list(value, new_key, n + 1,
                IF isinstance_dict(it)
                THEN update(items, flatten_dict(it.v, ikey))
                ELSE put(items, ikey, it))

\* for key, value in d.items(): ...
flatten_dict_items(d, parent_key, n, items) ==
    IF n > Len(d) THEN items
    ELSE LET key == d[n][1]
             value == d[n][2]
             new_key == IF parent_key /= "" THEN parent_key \o "." \o key
                        ELSE key
         IN flatten_dict_items(d, parent_key, n + 1,
                CASE isinstance_dict(value) ->
                         update(items, flatten_dict(value.v, new_key))
                  [] isinstance_list(value) ->
                         flatten_dict_list(value.v, new_key, 1, items)
                  [] OTHER -> put(items, new_key, value))

flatten_dict(d, parent_key) == flatten_dict_items(d, parent_key, 1, <<>>)

\* values a dict handed to flatten_dict can hold
FlattenValues ==
    { Num(1), Str("x"), None, Arr(<<>>), Obj(<<>>),
      Arr(<<Num(2), Num(3)>>),
      Arr(<< Obj(<< <<"b", Num(1)>> >>) >>),
      Arr(<< Arr(<<Num(1), Num(2)>>) >>),
      Arr(<< Num(1), Arr(<<>>) >>),
      Obj(<< <<"b", Num(1)>>, <<"c", Arr(<<Num(2), Num(3)>>)>> >>),
      Obj(<< <<"b", Obj(<< <<"c", Str("x")>> >>)>> >>),
      Obj(<< <<"c", Arr(<< Arr(<<Num(4)>>) >>)>> >>) }

FlattenKeys == {"a", "b"}

\* dicts of at most two keys
FlattenInputs ==
    {<<>>}
    \cup {<< <<k, v>> >> : k \in FlattenKeys, v \in FlattenValues}
    \cup {<< <<k[1], v>>, <<k[2], w>> >> :
             k \in {<<"a", "b">>, <<"b", "a">>},
             v \in FlattenValues, w \in FlattenValues}

FlattenIdle ==
    /\ flatIn = <<>>
    /\ flatOut = <<>>
    /\ flatPc = "idle"

FlattenInit ==
    /\ flatIn \in FlattenInputs
    /\ flatOut = <<>>
    /\ flatPc = "call"

\* flattened = flatten_dict(record)
FlattenCall ==
    /\ flatPc = "call"
    /\ flatOut' = flatten_dict(flatIn, "")
    /\ flatPc' = "returned"
    /\ UNCHANGED flatIn
    /\ UNCHANGED <<enrichVars, pageVars, dbVars, bulkVars, loopVars>>

FlattenNext == FlattenCall

\* ------------------------------------------------------------------------
\* find_all_uris
\* ------------------------------------------------------------------------
has_http_uri(value) ==
    /\ isinstance_dict(value)
    /\ has(value.v, "uri")
    /\ isinstance_str(item(value.v, "uri"))
    /\ startswith_http(item(value.v, "uri").v)

RECURSIVE recurse(_, _, _)
RECURSIVE recurse_dict(_, _, _, _)
RECURSIVE recurse_list(_, _, _, _)

recurse_dict(d, path, n, uris) ==
    IF n > Len(d) THEN uris
    ELSE recurse_dict(d, path, n + 1,
             recurse(d[n][2], path \o d[n][1] \o ".", uris))

recurse_list(l, path, n, uris) ==
    IF n > Len(l) THEN uris
    ELSE recurse_list(l, path, n + 1,
             recurse(l[n], path \o "[" \o ToString(n - 1) \o "].", uris))

recurse(current, path, uris) ==
    CASE isinstance_dict(current) ->
             recurse_dict(current.v, path, 1,
                 IF has_http_uri(current)
                 THEN put(uris, rstrip_dot(path), item(current.v, "uri").v)
                 ELSE uris)
      [] isinstance_list(current) -> recurse_list(current.v, path, 1, uris)
      [] OTHER -> uris

find_all_uris(data) == recurse(Obj(data), "", <<>>)

\* ------------------------------------------------------------------------
\* Sub-resources served by the remote API
\* ------------------------------------------------------------------------
U_CUST == "https://x/customer/1"
U_COMP == "https://x/company/2"
U_BOOK == "https://x/booking/12"

Body(url) ==
    CASE url = U_CUST -> Obj(<< <<"id", Num(1)>>, <<"name", Str("Acme")>> >>)
      [] url = U_COMP -> Obj(<< <<"id", Num(2)>>, <<"label", Str("Co")>>,
                               <<"address", Obj(<< <<"city", Str("Oslo")>> >>)>> >>)
      [] OTHER -> Obj(<< <<"id", Num(12)>>, <<"status", Str("open")>> >>)

ErrorBody == Obj(<< <<"message", Str("Not Found")>> >>)

\* what one request can meet: a 2xx JSON body, a non-2xx JSON body, or an
\* exception inside the request (transport error, body that is not JSON)
Outcomes == {"ok", "http_error", "error"}

\* fetch_data_async: resp.json() is returned whatever the status is; any
\* exception is caught and None is returned
fetch_data_async(url, met) ==
    CASE met = "ok" -> Body(url)
      [] met = "http_error" -> ErrorBody
      [] OTHER -> None

\* raw records the listing endpoint can return
R1 == << <<"id", Num(10)>>,
         <<"customer", Obj(<< <<"uri", Str(U_CUST)>> >>)>> >>
R2 == << <<"id", Num(11)>>, <<"name", Str("own")>>,
         <<"customer", Obj(<< <<"uri", Str(U_CUST)>> >>)>>,
         <<"company", Obj(<< <<"id", Num(2)>>, <<"uri", Str(U_COMP)>> >>)>> >>
R3 == << <<"id", Num(12)>>, <<"uri", Str(U_BOOK)>>,
         <<"refs", Arr(<< Obj(<< <<"id", Num(5)>>,
                   <<"config", Obj(<< <<"uri", Str(U_COMP)>> >>)>> >>) >>)>> >>
R4 == << <<"id", Num(13)>>, <<"note", Str("plain")>> >>
R5 == << <<"id", Num(14)>>,
         <<"customer", Obj(<< <<"id", Num(1)>>, <<"href", Str(U_CUST)>> >>)>>,
         <<"links", Arr(<< Str(U_BOOK) >>)>> >>

RawSamples == {R1, R2, R3, R4, R5}

SeqsUpTo(S, n) == UNION {[1..m -> S] : m \in 1..n}

\* ------------------------------------------------------------------------
\* enrich_record
\* ------------------------------------------------------------------------
\* for key, value in record.items(): direct URIs of the top level
RECURSIVE top_level_uris(_, _, _)
top_level_uris(record, n, uri_dict) ==
    IF n > Len(record) THEN uri_dict
    ELSE LET key == record[n][1]
             value == record[n][2]
         IN top_level_uris(record, n + 1,
                CASE isinstance_str(value) /\ startswith_http(value.v) ->
                         put(uri_dict, key, value.v)
                  [] has_http_uri(value) ->
                         put(uri_dict, key, item(value.v, "uri").v)
                  [] OTHER -> uri_dict)

discover_uris(record) ==
    update(top_level_uris(record, 1, <<>>), find_all_uris(record))

isinstance_Exception(res) == res.t = "exc"

\* for key, res in zip(keys, results): ...
RECURSIVE collect_extra(_, _, _)
collect_extra(ts, n, extra) ==
    IF n > Len(ts) THEN extra
    ELSE collect_extra(ts, n + 1,
             IF isinstance_Exception(ts[n].res) THEN extra
             ELSE put(extra, ts[n].key, ts[n].res))

\* Flatten each inner API result individually and merge
RECURSIVE flatten_extra(_, _, _)
flatten_extra(extra, n, flat_extra) ==
    IF n > Len(extra) THEN flat_extra
    ELSE LET key == extra[n][1]
             data == extra[n][2]
         IN flatten_extra(extra, n + 1,
                IF isinstance_dict(data)
                THEN update(flat_extra, flatten_dict(data.v, ""))
                ELSE put(flat_extra, key, data))

\* record.update(extra_flat) in process_bookings_async
merge_extra(record, extra_flat) == update(record, extra_flat)

\* enrich_record up to asyncio.gather: one request per entry of uri_dict
EnrichStart ==
    /\ enrPc = "next"
    /\ enr_i <= Len(bookings)
    /\ LET ud == discover_uris(bookings[enr_i])
       IN /\ tasks' = [n \in 1..Len(ud) |->
                         [key |-> ud[n][1], url |-> ud[n][2],
                          st |-> "pending", outcome |-> "none", res |-> None]]
          /\ subRequests' = subRequests \o [n \in 1..Len(ud) |-> ud[n][2]]
    /\ enrPc' = "gather"
    /\ UNCHANGED <<rawRecords, bookings, enr_i, processed, enrLog>>
    /\ UNCHANGED <<pageVars, dbVars, flattenVars, bulkVars, loopVars>>

\* one request of the gather settles; the order is the arrival order
FetchSettle ==
    /\ enrPc = "gather"
    /\ \E n \in 1..Len(tasks), met \in Outcomes :
          /\ tasks[n].st = "pending"
          /\ tasks' = [tasks EXCEPT ![n] =
                          [@ EXCEPT !.st = "settled", !.outcome = met,
                                    !.res = fetch_data_async(tasks[n].url, met)]]
    /\ UNCHANGED <<rawRecords, bookings, enr_i, enrPc, processed, enrLog,
                   subRequests>>
    /\ UNCHANGED <<pageVars, dbVars, flattenVars, bulkVars, loopVars>>

\* a join that returns as soon as one request has failed
gather_done_first_failure(ts) ==
    \/ \A n \in 1..Len(ts) : ts[n].st = "settled"
    \/ \E n \in 1..Len(ts) : ts[n].st = "settled" /\ ts[n].outcome /= "ok"

\* await asyncio.gather(*tasks, return_exceptions=True): the await ends
\* when every task has a result
gather_done(ts) == \A n \in 1..Len(ts) : ts[n].st = "settled"

\* gather returns; the rest of enrich_record and of the loop body of
\* process_bookings_async
EnrichJoin ==
    /\ enrPc = "gather"
    /\ gather_done(tasks)
    /\ LET extra == collect_extra(tasks, 1, <<>>)
           extra_flat == flatten_extra(extra, 1, <<>>)
           record == merge_extra(bookings[enr_i], extra_flat)
       IN /\ bookings' = [bookings EXCEPT ![enr_i] = record]
          /\ processed' = Append(processed, flatten_dict(record, ""))
          /\ enrLog' = Append(enrLog, [tasks |-> tasks, extra |-> extra_flat])
    /\ tasks' = <<>>
    /\ enr_i' = enr_i + 1
    /\ enrPc' = "next"
    /\ UNCHANGED <<rawRecords, subRequests>>
    /\ UNCHANGED <<pageVars, dbVars, flattenVars, bulkVars, loopVars>>

\* the for loop is exhausted: process_bookings_async returns processed
EnrichReturn ==
    /\ enrPc = "next"
    /\ enr_i > Len(bookings)
    /\ enrPc' = "done"
    /\ UNCHANGED <<rawRecords, bookings, enr_i, tasks, processed, enrLog,
                   subRequests>>
    /\ UNCHANGED <<pageVars, dbVars, flattenVars, bulkVars, loopVars>>

EnrichInit ==
    /\ rawRecords \in SeqsUpTo(RawSamples, MaxBookings)
    /\ bookings = rawRecords
    /\ enr_i = 1
    /\ enrPc = "next"
    /\ tasks = <<>>
    /\ processed = <<>>
    /\ enrLog = <<>>
    /\ subRequests = <<>>

\* the enricher has not been started
EnrichIdle ==
    /\ rawRecords = <<>>
    /\ bookings = <<>>
    /\ enr_i = 1
    /\ enrPc = "done"
    /\ tasks = <<>>
    /\ processed = <<>>
    /\ enrLog = <<>>
    /\ subRequests = <<>>

EnrichNext == EnrichStart \/ FetchSettle \/ EnrichJoin \/ EnrichReturn

\* ------------------------------------------------------------------------
\* Pagination: fetch_booking_data_paged (local_test) and fetch_booking_data
\* with fetch_data (Stat_API_Approach)
\* ------------------------------------------------------------------------
P1 == "https://api/bookings"
P2 == "https://api/bookings?page=2"
P3 == "https://api/bookings?page=3"
PageUrls == {P1, P2, P3}
DATA_API_URL == P1

\* data.get("next") of a last page: None
NoNext == ""

\* data.get("items", []) of each page
ItemsOf(url) ==
    CASE url = P1 -> <<"b1", "b2">>
      [] url = P2 -> <<"b3">>
      [] OTHER -> <<>>

OK == 200
Statuses == {OK, 500}

\* response.raise_for_status() raises for 4xx and 5xx
raises_for_status(status) == status >= 400

\* all_bookings = items
extend_overwrites(list, items) == items

\* all_bookings.extend(items)
extend(list, items) == list \o items

PageIdle ==
    /\ variant = "none"
    /\ pages = <<>>
    /\ next_url = NoNext
    /\ all_bookings = <<>>
    /\ fetched_urls = {}
    /\ pageRequests = <<>>
    /\ pgPc = "returned"
    /\ pgResult = [kind |-> "none", items |-> <<>>]

PageInit ==
    /\ variant \in {"paged", "static"}
    /\ pages \in [PageUrls -> [status : Statuses,
                               next : PageUrls \cup {NoNext}]]
    /\ next_url = DATA_API_URL
    /\ all_bookings = <<>>
    /\ fetched_urls = {}
    /\ pageRequests = <<>>
    /\ pgPc = "loop"
    /\ pgResult = [kind |-> "none", items |-> <<>>]

\* one iteration of "while next_url:" in fetch_booking_data_paged
PagedRequest ==
    /\ variant = "paged"
    /\ pgPc = "loop"
    /\ next_url /= NoNext
    /\ Len(pageRequests) < MaxRequests
    /\ pageRequests' = Append(pageRequests, next_url)
    /\ IF raises_for_status(pages[next_url].status)
       THEN /\ pgPc' = "raised"
            /\ pgResult' = [kind |-> "HTTPError", items |-> <<>>]
            /\ UNCHANGED <<all_bookings, next_url>>
       ELSE /\ all_bookings' = extend(all_bookings, ItemsOf(next_url))
            /\ next_url' = pages[next_url].next
            /\ UNCHANGED <<pgPc, pgResult>>
    /\ UNCHANGED <<variant, pages, fetched_urls>>
    /\ UNCHANGED <<enrichVars, dbVars, flattenVars, bulkVars, loopVars>>

\* the while loop ends: return all_bookings
PagedReturn ==
    /\ variant = "paged"
    /\ pgPc = "loop"
    /\ next_url = NoNext
    /\ pgPc' = "returned"
    /\ pgResult' = [kind |-> "list", items |-> all_bookings]
    /\ UNCHANGED <<variant, pages, next_url, all_bookings, fetched_urls,
                   pageRequests>>
    /\ UNCHANGED <<enrichVars, dbVars, flattenVars, bulkVars, loopVars>>

\* a test that never finds the URL
already_fetched_never(url, fetched) == FALSE

\* fetch_data: "if url in fetched_urls: return None"
already_fetched(url, fetched) == url \in fetched

\* one iteration of "while api_url:" in fetch_booking_data, with fetch_data
StaticRequest ==
    /\ variant = "static"
    /\ pgPc = "loop"
    /\ next_url /= NoNext
    /\ IF already_fetched(next_url, fetched_urls)
       THEN \* fetch_data returns None without a request; break
            /\ pgPc' = "returned"
            /\ pgResult' = [kind |-> "list", items |-> all_bookings]
            /\ UNCHANGED <<all_bookings, next_url, fetched_urls, pageRequests>>
       ELSE /\ pageRequests' = Append(pageRequests, next_url)
            /\ IF pages[next_url].status = OK
               THEN /\ fetched_urls' = fetched_urls \cup {next_url}
                    /\ all_bookings' = extend(all_bookings, ItemsOf(next_url))
                    /\ next_url' = pages[next_url].next
                    /\ UNCHANGED <<pgPc, pgResult>>
               ELSE \* fetch_data returns None; break
                    /\ pgPc' = "returned"
                    /\ pgResult' = [kind |-> "list", items |-> all_bookings]
                    /\ UNCHANGED <<all_bookings, next_url, fetched_urls>>
    /\ UNCHANGED <<variant, pages>>
    /\ UNCHANGED <<enrichVars, dbVars, flattenVars, bulkVars, loopVars>>

\* the while loop ends: return all_bookings
StaticReturn ==
    /\ variant = "static"
    /\ pgPc = "loop"
    /\ next_url = NoNext
    /\ pgPc' = "returned"
    /\ pgResult' = [kind |-> "list", items |-> all_bookings]
    /\ UNCHANGED <<variant, pages, next_url, all_bookings, fetched_urls,
                   pageRequests>>
    /\ UNCHANGED <<enrichVars, dbVars, flattenVars, bulkVars, loopVars>>

PageNext == PagedRequest \/ PagedReturn \/ StaticRequest \/ StaticReturn

\* ------------------------------------------------------------------------
\* UpsertEngine: TABLE_MAPPING, upsert_entity, upsert_array_entities,
\* process_flattened_record, insert_bookings_into_db
\* ------------------------------------------------------------------------
\* c.endswith("_id")
endswith_id(c) == Len(c) >= 3 /\ SubSeq(c, Len(c) - 2, Len(c)) = "_id"

\* template.replace("{i}", str(i))
RECURSIVE replace_i(_, _)
replace_i(template, str_i) ==
    IF Len(template) < 3 THEN template
    ELSE IF SubSeq(template, 1, 3) = "{i}"
         THEN str_i \o replace_i(SubSeq(template, 4, Len(template)), str_i)
         ELSE SubSeq(template, 1, 1)
                  \o replace_i(SubSeq(template, 2, Len(template)), str_i)

\* The mappings with the table they write and their leading columns, in
\* the order the source declares them (an entity mapping keeps its key
\* column and uri, an array mapping its first three columns).
TABLE_MAPPING ==
    [LocationAddress |-> [table_name |-> "Address", columns |->
        << <<"address_id", "location.id">>, <<"uri", "location.uri">> >>],
     ActualLocationAddress |-> [table_name |-> "Address", columns |->
        << <<"address_id", "actualLocation.id">>,
           <<"uri", "actualLocation.uri">> >>],
     BillingLocationAddress |-> [table_name |-> "Address", columns |->
        << <<"address_id", "billingLocation.id">>,
           <<"uri", "billingLocation.uri">> >>],
     SubLocationAddress |-> [table_name |-> "Address", columns |->
        << <<"address_id", "subLocation.id">>,
           <<"uri", "subLocation.uri">> >>],
     Company |-> [table_name |-> "Company", columns |->
        << <<"company_id", "company.id">>, <<"uri", "company.uri">> >>],
     Config |-> [table_name |-> "Config", columns |->
        << <<"config_id", "config.id">>, <<"uri", "config.uri">> >>],
     Ref_Config |-> [table_name |-> "Config", columns |->
        << <<"config_id", "refs.{i}.config.id">>,
           <<"uri", "refs.{i}.config.uri">> >>],
     Integration |-> [table_name |-> "Integration", columns |->
        << <<"integration_id", "integration.id">>,
           <<"uri", "integration.uri">> >>],
     Customer |-> [table_name |-> "Customer", columns |->
        << <<"customer_id", "customer.id">>, <<"uri", "customer.uri">> >>],
     Interpreter |-> [table_name |-> "Interpreter", columns |->
        << <<"interpreter_id", "interpreter.id">>,
           <<"uri", "interpreter.uri">> >>],
     Requestor |-> [table_name |-> "Requestor", columns |->
        << <<"requestor_id", "requestor.id">>,
           <<"uri", "requestor.uri">> >>],
     Visit |-> [table_name |-> "Visit", columns |->
        << <<"visit_id", "visit.id">>, <<"uri", "visit.uri">> >>],
     Booking |-> [table_name |-> "Booking", columns |->
        << <<"booking_id", "id">>, <<"uri", "uri">> >>],
     BookingRefs |-> [table_name |-> "BookingRefs", columns |->
        << <<"ref_id", "refs.{i}.id">>, <<"booking_id", "id">>,
           <<"uri", "refs.{i}.uri">> >>],
     BookingRequirements |-> [table_name |-> "BookingRequirements",
        columns |->
        << <<"requirement_id", "requirements.{i}.id">>,
           <<"booking_id", "id">>,
           <<"version_value", "requirements.{i}.versionValue">> >>]]

Tables == {TABLE_MAPPING[m].table_name : m \in DOMAIN TABLE_MAPPING}

\* record.get(json_path, None)
get_json_value(record, json_path) == get(record, json_path)

\* the first column the key heuristic accepts, "" when there is none
find_pk_col(columns_map, also) ==
    LET hits == {n \in 1..Len(columns_map) :
                    \/ endswith_id(columns_map[n][1])
                    \/ columns_map[n][1] \in also}
    IN IF hits = {} THEN ""
       ELSE columns_map[CHOOSE n \in hits : \A h \in hits : n <= h][1]

entity_pk_names == {"booking_id", "company_id", "ref_id", "requirement_id"}
array_pk_names == {"ref_id", "requirement_id"}

\* upsert_entity: db_columns zipped with values, each path read as written
entity_row(columns_map, record) ==
    [n \in 1..Len(columns_map) |->
        <<columns_map[n][1], get_json_value(record, columns_map[n][2])>>]

\* upsert_array_entities: db_columns zipped with values, each path read
\* with "{i}" replaced by str(i)
array_row(columns_map, record, str_i) ==
    [n \in 1..Len(columns_map) |->
        <<columns_map[n][1],
          get(record, replace_i(columns_map[n][2], str_i))>>]

\* the existence check that never finds the row
select_exists_never(rows, pk_col, pk_value) == FALSE

\* SELECT 1 FROM table WHERE pk_col = ? ; cursor.fetchone()
select_exists(rows, pk_col, pk_value) ==
    \E n \in 1..Len(rows) : get(rows[n], pk_col) = pk_value

\* an UPDATE without its WHERE clause
update_rows_all(rows, row, pk_col, pk_value) ==
    LET update_cols == SelectSeq(row, LAMBDA c : c[1] /= pk_col)
    IN [n \in 1..Len(rows) |-> update(rows[n], update_cols)]

\* UPDATE table SET <every column but pk_col> WHERE pk_col = ?
update_rows(rows, row, pk_col, pk_value) ==
    LET update_cols == SelectSeq(row, LAMBDA c : c[1] /= pk_col)
    IN [n \in 1..Len(rows) |->
           IF get(rows[n], pk_col) = pk_value
           THEN update(rows[n], update_cols)
           ELSE rows[n]]

\* INSERT INTO table (<all columns>) VALUES (...)
\* an INSERT of the key column alone
insert_row_key_only(rows, row) == Append(rows, <<row[1]>>)

\* INSERT INTO table (<every column>) VALUES (...)
insert_row(rows, row) == Append(rows, row)

\* a rollback that leaves the open transaction's writes in place
rollback_keeps(open, durable) == open

\* conn.rollback(): the open transaction's writes are discarded (the call
\* itself is taken to succeed; were it to raise, the outer "Fatal error"
\* handler of insert_bookings_into_db would end the loop)
rollback(open, durable) == durable

\* a commit that makes nothing durable and leaves the transaction open
commit_leaves_open(open, durable) == durable

\* conn.commit(): the open transaction's writes become durable
commit(open, durable) == open

\* the except clause around the whole loop: the first error ends the loop
next_record_loop_ends(k, n) == n + 1

\* the except clause sits inside the for loop: the loop goes on with the
\* next record (n is the number of records)
next_record_after_error(k, n) == k + 1

\* upsert_array_entities(..., max_items = 50)
max_items == 50

\* a key test that lets a null key through
entity_pk_missing_never(pk_value) == FALSE

\* upsert_entity: "if pk_value is None: return"
entity_pk_missing(pk_value) == pk_value = None

\* a gap test that lets a null key through
array_pk_missing_never(pk_value) == FALSE

\* upsert_array_entities: "if pk_value is None: break"
array_pk_missing(pk_value) == pk_value = None

\* the declared table order
TABLE_ORDER ==
    <<"ContractType", "Customer", "Location", "BookingMode", "Client",
      "Company", "Language", "EmploymentCategory", "InvoiceStatus",
      "PaymentStatus", "OverflowType", "SuperBooking", "BookingStatus",
      "Requestor", "VisitStatus", "Visit", "Interpreter", "Ref",
      "BookingRef", "BookingOverriddenRequirement", "BookingInvalidField",
      "BookingRequirement", "Booking">>

\* a call order that writes the main entity before its references
WritePlan_booking_first ==
    << [kind |-> "entity", mapping |-> "Booking", guard |-> ""],
       [kind |-> "entity", mapping |-> "Company", guard |-> "company.id"],
       [kind |-> "entity", mapping |-> "Config", guard |-> "config.id"],
       [kind |-> "entity", mapping |-> "Ref_Config", guard |-> "config.id"],
       [kind |-> "entity", mapping |-> "Integration", guard |-> "integration.id"],
       [kind |-> "entity", mapping |-> "LocationAddress", guard |-> ""],
       [kind |-> "entity", mapping |-> "ActualLocationAddress", guard |-> ""],
       [kind |-> "entity", mapping |-> "BillingLocationAddress", guard |-> ""],
       [kind |-> "entity", mapping |-> "SubLocationAddress", guard |-> ""],
       [kind |-> "entity", mapping |-> "Customer", guard |-> ""],
       [kind |-> "entity", mapping |-> "Interpreter", guard |-> ""],
       [kind |-> "entity", mapping |-> "Requestor", guard |-> ""],
       [kind |-> "entity", mapping |-> "Visit", guard |-> ""],
       [kind |-> "array", mapping |-> "BookingRefs", guard |-> ""],
       [kind |-> "array", mapping |-> "BookingRequirements", guard |-> ""] >>

\* process_flattened_record: the calls in source order; guard is the key
\* whose presence the call is conditioned on ("" when unconditional)
WritePlan ==
    << [kind |-> "entity", mapping |-> "Company", guard |-> "company.id"],
       [kind |-> "entity", mapping |-> "Config", guard |-> "config.id"],
       [kind |-> "entity", mapping |-> "Ref_Config", guard |-> "config.id"],
       [kind |-> "entity", mapping |-> "Integration", guard |-> "integration.id"],
       [kind |-> "entity", mapping |-> "LocationAddress", guard |-> ""],
       [kind |-> "entity", mapping |-> "ActualLocationAddress", guard |-> ""],
       [kind |-> "entity", mapping |-> "BillingLocationAddress", guard |-> ""],
       [kind |-> "entity", mapping |-> "SubLocationAddress", guard |-> ""],
       [kind |-> "entity", mapping |-> "Customer", guard |-> ""],
       [kind |-> "entity", mapping |-> "Interpreter", guard |-> ""],
       [kind |-> "entity", mapping |-> "Requestor", guard |-> ""],
       [kind |-> "entity", mapping |-> "Visit", guard |-> ""],
       [kind |-> "entity", mapping |-> "Booking", guard |-> ""],
       [kind |-> "array", mapping |-> "BookingRefs", guard |-> ""],
       [kind |-> "array", mapping |-> "BookingRequirements", guard |-> ""] >>

CommitStep == Len(WritePlan) + 1

\* flat records handed to insert_bookings_into_db
F1 == << <<"id", Num(10)>>, <<"uri", Str("https://x/booking/10")>>,
         <<"company.id", Num(2)>>, <<"company.uri", Str(U_COMP)>>,
         <<"customer.id", Num(1)>>, <<"customer.uri", Str(U_CUST)>>,
         <<"refs.0.id", Num(5)>>, <<"refs.0.uri", Str("https://x/ref/5")>>,
         <<"refs.1.id", Num(6)>> >>
F2 == << <<"id", Num(11)>>, <<"company.id", Num(2)>>,
         <<"customer.id", Num(1)>>, <<"customer.uri", Str("https://x/c/1")>>,
         <<"location.id", Num(7)>>, <<"location.uri", Str("https://x/l/7")>>,
         <<"actualLocation.id", Num(7)>>,
         <<"interpreter.id", Num(8)>>, <<"requestor.id", Num(12)>>,
         <<"visit.id", Num(14)>>,
         <<"requirements.0.id", Num(9)>>, <<"requirements.2.id", Num(7)>> >>
F3 == << <<"uri", Str("https://x/booking/0")>>,
         <<"config.id", Num(3)>>, <<"config.uri", Str("https://x/cfg/3")>>,
         <<"integration.id", Num(4)>>,
         <<"refs.0.config.id", Num(4)>>,
         <<"refs.0.config.uri", Str("https://x/cfg/4")>> >>

FlatSamples == {F1, F2, F3}

\* what a statement can meet
Faults == {"none", "select", "write"}

EmptyTables == [t \in Tables |-> <<>>]

DbIdle ==
    /\ flats = <<>>
    /\ dbPc = "done"
    /\ rec_k = 1
    /\ step = 0
    /\ arr_i = 0
    /\ tx = EmptyTables
    /\ committed = EmptyTables
    /\ outcome = <<>>
    /\ recStart = EmptyTables
    /\ stmts = <<>>

DbInit ==
    /\ flats \in SeqsUpTo(FlatSamples, MaxRecords)
    /\ dbPc = "connect"
    /\ rec_k = 1
    /\ step = 0
    /\ arr_i = 0
    /\ tx = EmptyTables
    /\ committed = EmptyTables
    /\ outcome = [n \in 1..Len(flats) |-> "pending"]
    /\ recStart = EmptyTables
    /\ stmts = <<>>

\* get_db_connection() and "if not conn: return"
Connect ==
    /\ dbPc = "connect"
    /\ \E ok \in BOOLEAN : dbPc' = IF ok THEN "loop" ELSE "noconn"
    /\ UNCHANGED <<flats, rec_k, step, arr_i, tx, committed, outcome,
                   recStart, stmts>>
    /\ UNCHANGED <<enrichVars, pageVars, flattenVars, bulkVars, loopVars>>

\* "for record in bookings: try:" -- the next record's writes begin
BeginRecord ==
    /\ dbPc = "loop"
    /\ rec_k <= Len(flats)
    /\ step = 0
    /\ step' = 1
    /\ arr_i' = 0
    /\ outcome' = [outcome EXCEPT ![rec_k] = "writing"]
    /\ recStart' = tx
    /\ UNCHANGED <<flats, dbPc, rec_k, tx, committed, stmts>>
    /\ UNCHANGED <<enrichVars, pageVars, flattenVars, bulkVars, loopVars>>

Stmt(kind, mapping, idx, table, pk, row, ok, before, after) ==
    [rec |-> rec_k, kind |-> kind, mapping |-> mapping, idx |-> idx,
     table |-> table, pk |-> pk, row |-> row, ok |-> ok,
     before |-> before, after |-> after]

\* an exception leaves process_flattened_record: logging.exception,
\* conn.rollback(), and the for loop goes on
RecordFails(issued) ==
    /\ stmts' = stmts \o issued
    /\ tx' = rollback(tx, committed)
    /\ outcome' = [outcome EXCEPT ![rec_k] = "rolledback"]
    /\ rec_k' = next_record_after_error(rec_k, Len(flats))
    /\ step' = 0
    /\ arr_i' = 0
    /\ UNCHANGED <<flats, dbPc, committed, recStart>>

\* the existence check followed by the UPDATE or the INSERT of one row
ApplyCandidate(mapping, idx, row, pk_col, pk_value, step2, arr2) ==
    LET table == TABLE_MAPPING[mapping].table_name
        rows == tx[table]
        found == select_exists(rows, pk_col, pk_value)
        rows2 == IF found THEN update_rows(rows, row, pk_col, pk_value)
                 ELSE insert_row(rows, row)
        sel(ok) == Stmt("SELECT", mapping, idx, table, pk_value, row, ok,
                        Len(rows), Len(rows))
        wr(ok) == Stmt(IF found THEN "UPDATE" ELSE "INSERT", mapping, idx,
                       table, pk_value, row, ok, Len(rows),
                       IF ok THEN Len(rows2) ELSE Len(rows))
    IN \E fault \in Faults :
          CASE fault = "select" -> RecordFails(<<sel(FALSE)>>)
            [] fault = "write" -> RecordFails(<<sel(TRUE), wr(FALSE)>>)
            [] OTHER ->
                 /\ stmts' = stmts \o <<sel(TRUE), wr(TRUE)>>
                 /\ tx' = [tx EXCEPT ![table] = rows2]
                 /\ step' = step2
                 /\ arr_i' = arr2
                 /\ UNCHANGED <<flats, dbPc, rec_k, committed, outcome,
                                recStart>>

Skip(step2) ==
    /\ step' = step2
    /\ arr_i' = 0
    /\ UNCHANGED <<flats, dbPc, rec_k, tx, committed, outcome, recStart,
                   stmts>>

\* one call of upsert_entity in process_flattened_record
UpsertEntity ==
    /\ dbPc = "loop"
    /\ step \in 1..Len(WritePlan)
    /\ WritePlan[step].kind = "entity"
    /\ LET record == flats[rec_k]
           call == WritePlan[step]
           columns_map == TABLE_MAPPING[call.mapping].columns
           row == entity_row(columns_map, record)
           pk_col == find_pk_col(columns_map, entity_pk_names)
           pk_value == get(row, pk_col)
       IN IF call.guard /= "" /\ ~has(record, call.guard)
          THEN Skip(step + 1)
          ELSE IF pk_col = "" \/ entity_pk_missing(pk_value)
               THEN Skip(step + 1)
               ELSE ApplyCandidate(call.mapping, -1, row, pk_col, pk_value,
                                   step + 1, 0)
    /\ UNCHANGED <<enrichVars, pageVars, flattenVars, bulkVars, loopVars>>

\* one iteration of "for i in range(max_items)" in upsert_array_entities
UpsertArrayItem ==
    /\ dbPc = "loop"
    /\ step \in 1..Len(WritePlan)
    /\ WritePlan[step].kind = "array"
    /\ LET record == flats[rec_k]
           call == WritePlan[step]
           columns_map == TABLE_MAPPING[call.mapping].columns
           pk_col == find_pk_col(columns_map, array_pk_names)
           str_i == ToString(arr_i)
           row == array_row(columns_map, record, str_i)
           pk_value == IF pk_col = "" THEN None ELSE get(row, pk_col)
       IN IF pk_col = "" \/ arr_i >= max_items \/ array_pk_missing(pk_value)
          THEN Skip(step + 1)
          ELSE ApplyCandidate(call.mapping, arr_i, row, pk_col, pk_value,
                              step, arr_i + 1)
    /\ UNCHANGED <<enrichVars, pageVars, flattenVars, bulkVars, loopVars>>

\* conn.commit() after process_flattened_record returned; a commit that
\* raises is handled by the same except clause
Commit ==
    /\ dbPc = "loop"
    /\ step = CommitStep
    /\ \E ok \in BOOLEAN :
          IF ok
          THEN /\ committed' = commit(tx, committed)
               /\ outcome' = [outcome EXCEPT ![rec_k] = "committed"]
               /\ rec_k' = rec_k + 1
               /\ step' = 0
               /\ arr_i' = 0
               /\ UNCHANGED <<flats, dbPc, tx, recStart, stmts>>
          ELSE RecordFails(<<>>)
    /\ UNCHANGED <<enrichVars, pageVars, flattenVars, bulkVars, loopVars>>

\* the for loop is exhausted: cursor.close(), conn.close()
Finish ==
    /\ dbPc = "loop"
    /\ rec_k > Len(flats)
    /\ dbPc' = "done"
    /\ UNCHANGED <<flats, rec_k, step, arr_i, tx, committed, outcome,
                   recStart, stmts>>
    /\ UNCHANGED <<enrichVars, pageVars, flattenVars, bulkVars, loopVars>>

DbNext ==
    \/ Connect
    \/ BeginRecord
    \/ UpsertEntity
    \/ UpsertArrayItem
    \/ Commit
    \/ Finish

\* ------------------------------------------------------------------------
\* load_s.py: bulk_insert
\* ------------------------------------------------------------------------
MaxRows == 2

\* rows of one table, the key in the first column
B1 == << <<"ref_id", Num(5)>>, <<"uri", Str("https://x/ref/5")>> >>
B2 == << <<"ref_id", Num(6)>>, <<"uri", None>> >>
B3 == << <<"ref_id", Num(5)>>, <<"uri", None>> >>

BulkSamples == {B1, B2, B3}

\* MERGE INTO table ... ON target.<first column> = source.<first column>
\* WHEN MATCHED THEN UPDATE SET <every column>
\* WHEN NOT MATCHED THEN INSERT
merge_row(rows, row) ==
    LET key == row[1][1]
        hit == {n \in 1..Len(rows) : get(rows[n], key) = get(row, key)}
    IN IF hit = {} THEN Append(rows, row)
       ELSE [n \in 1..Len(rows) |-> IF n \in hit THEN row ELSE rows[n]]

RECURSIVE merge_rows(_, _, _)
merge_rows(rows, data, n) ==
    IF n = 0 THEN rows
    ELSE merge_row(merge_rows(rows, data, n - 1), data[n])

BulkIdle ==
    /\ bulkData = <<>>
    /\ bulkTable = <<>>
    /\ bulkPc = "idle"
    /\ bulk_idx = 1
    /\ bulkLog = <<>>

BulkInit ==
    /\ bulkData \in {<<>>} \cup SeqsUpTo(BulkSamples, MaxRows)
    /\ bulkTable \in {<<>>, <<B3>>}
    /\ bulkPc = "start"
    /\ bulk_idx = 1
    /\ bulkLog = <<>>

\* "if not data: return"
BulkNoData ==
    /\ bulkPc = "start"
    /\ bulkData = <<>>
    /\ bulkPc' = "done"
    /\ UNCHANGED <<bulkData, bulkTable, bulk_idx, bulkLog>>
    /\ UNCHANGED <<enrichVars, pageVars, dbVars, flattenVars, loopVars>>

\* cursor.executemany(merge_query, values): the rows are merged in order;
\* when it raises at row f the rows before f have been merged and the
\* except clause starts the individual inserts
BulkBatch ==
    /\ bulkPc = "start"
    /\ bulkData /= <<>>
    /\ \E f \in 0..Len(bulkData) :
          IF f = 0
          THEN /\ bulkTable' = merge_rows(bulkTable, bulkData, Len(bulkData))
               /\ bulkLog' = Append(bulkLog,
                      [call |-> "executemany", rows |-> 1..Len(bulkData),
                       failed |-> {}])
               /\ bulkPc' = "done"
          ELSE /\ bulkTable' = merge_rows(bulkTable, bulkData, f - 1)
               /\ bulkLog' = Append(bulkLog,
                      [call |-> "executemany", rows |-> 1..f,
                       failed |-> {f}])
               /\ bulkPc' = "individual"
    /\ bulk_idx' = 1
    /\ UNCHANGED bulkData
    /\ UNCHANGED <<enrichVars, pageVars, dbVars, flattenVars, loopVars>>

\* one iteration of "for idx, row in enumerate(values)":
\* cursor.execute(merge_query, row), an error is logged and the loop goes on
BulkIndividual ==
    /\ bulkPc = "individual"
    /\ bulk_idx <= Len(bulkData)
    /\ \E ok \in BOOLEAN :
          /\ bulkTable' = IF ok THEN merge_row(bulkTable, bulkData[bulk_idx])
                          ELSE bulkTable
          /\ bulkLog' = Append(bulkLog,
                 [call |-> "execute", rows |-> {bulk_idx},
                  failed |-> IF ok THEN {} ELSE {bulk_idx}])
    /\ bulk_idx' = bulk_idx + 1
    /\ UNCHANGED <<bulkData, bulkPc>>
    /\ UNCHANGED <<enrichVars, pageVars, dbVars, flattenVars, loopVars>>

\* the individual loop is exhausted
BulkReturn ==
    /\ bulkPc = "individual"
    /\ bulk_idx > Len(bulkData)
    /\ bulkPc' = "done"
    /\ UNCHANGED <<bulkData, bulkTable, bulk_idx, bulkLog>>
    /\ UNCHANGED <<enrichVars, pageVars, dbVars, flattenVars, loopVars>>

BulkNext ==
    \/ BulkNoData
    \/ BulkBatch
    \/ BulkIndividual
    \/ BulkReturn

\* ------------------------------------------------------------------------
\* run_main_loop
\* ------------------------------------------------------------------------
MaxWindows == 2

\* Times are counted in half seconds from 2019-01-01T00:00:00, the value
\* of date_1 before the loop; a formatted date is a count of whole seconds.
\* six months of 31 days
SixMonths_of_31 == 6 * 31 * 86400 * 2

\* timedelta(days=6*30)
SixMonths == 6 * 30 * 86400 * 2

\* d.strftime("%Y-%m-%dT%H:%M:%SZ"): the fraction of a second is dropped
strftime(d) == d \div 2

\* what datetime.now() can return
Nows ==
    {k * SixMonths + d : k \in 0..MaxWindows, d \in {0, 1, 2, SixMonths - 1}}

\* how one call of main() can end: the records written, a connection
\* that could not be made (insert_bookings_into_db returns), an exception
\* out of authenticate or fetch_booking_data_paged
MainEnds == {"written", "noconn", "raised"}

LoopIdle ==
    /\ date_1 = 0
    /\ next_date = 0
    /\ current_time = 0
    /\ START_DATE = 0
    /\ END_DATE = 0
    /\ loopPc = "idle"
    /\ windows = <<>>

LoopInit ==
    /\ date_1 = 0
    /\ next_date = 0
    /\ current_time \in Nows
    /\ START_DATE = 0
    /\ END_DATE = 0
    /\ loopPc = "test"
    /\ windows = <<>>

\* "while date_1 < current_time:" up to the call of main()
LoopTest ==
    /\ loopPc = "test"
    /\ IF date_1 < current_time
       THEN LET nd == date_1 + SixMonths
                nd2 == IF nd > current_time THEN current_time ELSE nd
            IN /\ next_date' = nd2
               /\ START_DATE' = strftime(date_1)
               /\ END_DATE' = strftime(nd2)
               /\ loopPc' = "main"
       ELSE /\ loopPc' = "done"
            /\ UNCHANGED <<next_date, START_DATE, END_DATE>>
    /\ UNCHANGED <<date_1, current_time, windows>>
    /\ UNCHANGED <<enrichVars, pageVars, dbVars, flattenVars, bulkVars>>

\* "await main()" and "date_1 = next_date"; an exception out of main()
\* leaves run_main_loop
RunMain ==
    /\ loopPc = "main"
    /\ \E end \in MainEnds :
          /\ windows' = Append(windows,
                 [start |-> START_DATE, end |-> END_DATE, fetched |-> TRUE,
                  ended |-> end])
          /\ IF end = "raised"
             THEN /\ loopPc' = "raised"
                  /\ UNCHANGED date_1
             ELSE /\ loopPc' = "test"
                  /\ date_1' = next_date
    /\ UNCHANGED <<next_date, current_time, START_DATE, END_DATE>>
    /\ UNCHANGED <<enrichVars, pageVars, dbVars, flattenVars, bulkVars>>

LoopNext ==
    \/ LoopTest
    \/ RunMain

\* ------------------------------------------------------------------------
\* Specifications
\* ------------------------------------------------------------------------
InitEnrich == EnrichInit /\ PageIdle /\ DbIdle /\ FlattenIdle /\ BulkIdle
    /\ LoopIdle

SpecEnrich == InitEnrich /\ [][EnrichNext]_vars

InitPage == PageInit /\ EnrichIdle /\ DbIdle /\ FlattenIdle /\ BulkIdle
    /\ LoopIdle

SpecPage == InitPage /\ [][PageNext]_vars

\* the while loops are straight-line code: a step that can be taken is taken
SpecPageFair == SpecPage /\ WF_vars(PageNext)

InitDb == DbInit /\ EnrichIdle /\ PageIdle /\ FlattenIdle /\ BulkIdle
    /\ LoopIdle

SpecDb == InitDb /\ [][DbNext]_vars

InitFlatten == FlattenInit /\ EnrichIdle /\ PageIdle /\ DbIdle /\ BulkIdle
    /\ LoopIdle

SpecFlatten == InitFlatten /\ [][FlattenNext]_vars

InitBulk == BulkInit /\ EnrichIdle /\ PageIdle /\ DbIdle /\ FlattenIdle
    /\ LoopIdle

SpecBulk == InitBulk /\ [][BulkNext]_vars

InitLoop == LoopInit /\ EnrichIdle /\ PageIdle /\ DbIdle /\ FlattenIdle
    /\ BulkIdle

SpecLoop == InitLoop /\ [][LoopNext]_vars

\* the loop body is straight-line code: a step that can be taken is taken
SpecLoopFair == SpecLoop /\ WF_vars(LoopNext)

\* ------------------------------------------------------------------------
\* Properties of the UpsertEngine (SpecDb)
\* ------------------------------------------------------------------------
IsWrite(st) == st.kind \in {"INSERT", "UPDATE"}

\* C1: whenever a record ends rolled back (a failed existence check, INSERT,
\* UPDATE or commit), the tables are exactly what they were when that
\* record's try block began, in the open transaction and durably.
RollbackRestoresStorage ==
    [][\A k \in 1..Len(flats) :
          (outcome[k] /= "rolledback" /\ outcome'[k] = "rolledback")
              => (tx' = recStart /\ committed' = recStart)]_vars

\* a record was rolled back after it had already written a row
RolledBackAfterWrite ==
    \E k \in 1..Len(flats) :
       /\ outcome[k] = "rolledback"
       /\ \E n \in 1..Len(stmts) :
             stmts[n].rec = k /\ IsWrite(stmts[n]) /\ stmts[n].ok

Terminal == {"committed", "rolledback"}

pk_of_table(t) ==
    LET m == CHOOSE m \in DOMAIN TABLE_MAPPING :
                 TABLE_MAPPING[m].table_name = t
    IN find_pk_col(TABLE_MAPPING[m].columns, entity_pk_names)

NoDuplicateKeys(tables) ==
    \A t \in Tables : \A a, b \in 1..Len(tables[t]) :
        a /= b => get(tables[t][a], pk_of_table(t))
                     /= get(tables[t][b], pk_of_table(t))

\* statement m applies again the row candidate statement n applied, and
\* n's write was not rolled back in between
SameCandidateAgain(n, m) ==
    /\ n < m
    /\ IsWrite(stmts[n]) /\ stmts[n].ok
    /\ IsWrite(stmts[m]) /\ stmts[m].ok
    /\ stmts[n].table = stmts[m].table
    /\ stmts[n].pk = stmts[m].pk
    /\ stmts[n].row = stmts[m].row
    /\ \/ stmts[n].rec = stmts[m].rec
       \/ outcome[stmts[n].rec] = "committed"

\* C3: a second application of the same row candidate is an UPDATE that
\* leaves the table's row count as it was, and no table ever holds two
\* rows with the same key.
UpsertIdempotent ==
    /\ NoDuplicateKeys(tx)
    /\ NoDuplicateKeys(committed)
    /\ \A n, m \in 1..Len(stmts) :
          SameCandidateAgain(n, m)
              => /\ stmts[m].kind = "UPDATE"
                 /\ stmts[m].after = stmts[m].before

\* a committed record is applied a second time
CandidateAppliedTwice ==
    \E n, m \in 1..Len(stmts) :
       /\ SameCandidateAgain(n, m)
       /\ stmts[n].kind = "INSERT"
       /\ stmts[n].rec /= stmts[m].rec
       /\ outcome[stmts[m].rec] = "committed"

\* ------------------------------------------------------------------------
\* Properties of the ReferenceEnricher (SpecEnrich)
\* ------------------------------------------------------------------------
\* C4: a top-level key the record had before enrichment keeps the record's
\* value when the merged sub-resource content has the same key.
RecordKeysTakePrecedence ==
    \A i \in 1..Len(enrLog) : \A key \in keys(rawRecords[i]) :
        has(enrLog[i].extra, key)
            => get(bookings[i], key) = get(rawRecords[i], key)

AllFetched(ts) == \A n \in 1..Len(ts) : ts[n].outcome = "ok"

\* C5: the record {id: 10, customer: {uri: U}} whose sub-resource is
\* {id: 1, name: "Acme"} flattens, after enrichment, to id = 10 and
\* name = "Acme".
EndToEndScenario ==
    \A i \in 1..Len(processed) :
        (rawRecords[i] = R1 /\ AllFetched(enrLog[i].tasks))
            => /\ get(processed[i], "id") = Num(10)
               /\ get(processed[i], "name") = Str("Acme")

FailedTasks(ts) == {n \in 1..Len(ts) : ts[n].outcome = "error"}

\* C6: when exactly one of the N requests of a record fails and the others
\* succeed, every key of every fetched body is in the merged extra, and
\* every field of the original record keeps its original value.
EnrichmentFaultIsolation ==
    \A i \in 1..Len(enrLog) :
        LET ts == enrLog[i].tasks
        IN (/\ Cardinality(FailedTasks(ts)) = 1
            /\ \A n \in 1..Len(ts) : ts[n].outcome \in {"ok", "error"})
           => /\ \A n \in 1..Len(ts) :
                    ts[n].outcome = "ok"
                        => keys(flatten_dict(ts[n].res.v, ""))
                               \subseteq keys(enrLog[i].extra)
              /\ \A key \in keys(rawRecords[i]) :
                    get(bookings[i], key) = get(rawRecords[i], key)

\* C7: a request that failed adds no key to the extra map of its record.
FailedFetchContributesNothing ==
    \A i \in 1..Len(enrLog) :
        \A n \in FailedTasks(enrLog[i].tasks) :
            ~has(enrLog[i].extra, enrLog[i].tasks[n].key)

\* ------------------------------------------------------------------------
\* Properties of the PaginatedFetcher (SpecPage)
\* ------------------------------------------------------------------------
\* the page URLs reached by following next from url, at most fuel of them
RECURSIVE Walk(_, _)
Walk(url, fuel) ==
    IF url = NoNext \/ fuel = 0 THEN <<>>
    ELSE <<url>> \o Walk(pages[url].next, fuel - 1)

ChainUrls == Walk(DATA_API_URL, Cardinality(PageUrls) + 1)

RECURSIVE ConcatItems(_)
ConcatItems(urls) ==
    IF urls = <<>> THEN <<>> ELSE ItemsOf(Head(urls)) \o ConcatItems(Tail(urls))

\* the pages form a chain that ends in a page without next, and every page
\* of it answers with success
ProperChain ==
    /\ Len(ChainUrls) <= Cardinality(PageUrls)
    /\ \A n \in 1..Len(ChainUrls) : pages[ChainUrls[n]].status = OK

\* C8: over a chain of k pages fetch_booking_data_paged requests the pages
\* one by one in chain order, and returns after exactly k requests with
\* the concatenation of the pages' items.
PagedFetchesWholeChain ==
    (variant = "paged" /\ ProperChain)
        => /\ pgPc /= "raised"
           /\ Len(pageRequests) <= Len(ChainUrls)
           /\ pageRequests = SubSeq(ChainUrls, 1, Len(pageRequests))
           /\ all_bookings = ConcatItems(pageRequests)
           /\ pgPc = "returned"
                 => /\ pageRequests = ChainUrls
                    /\ pgResult = [kind |-> "list",
                                   items |-> ConcatItems(ChainUrls)]

\* a chain of three pages has been fetched and returned
ThreePagesReturned ==
    /\ variant = "paged"
    /\ ProperChain
    /\ Len(ChainUrls) = 3
    /\ pgPc = "returned"

FailedRequests ==
    {n \in 1..Len(pageRequests) : pages[pageRequests[n]].status /= OK}

\* C9: once a page request met a non-success status, that request is the
\* last one, and the caller receives the items of the pages before it.
FailedPageReturnsPartial ==
    FailedRequests /= {}
        => /\ FailedRequests = {Len(pageRequests)}
           /\ pgPc = "returned"
           /\ pgResult = [kind |-> "list",
                          items |-> ConcatItems(SubSeq(pageRequests, 1,
                                                Len(pageRequests) - 1))]

NoRepeat(seq) ==
    \A a, b \in 1..Len(seq) : a /= b => seq[a] /= seq[b]

\* C10: no URL is requested twice in a run, page or sub-resource.
NoUrlRequestedTwice == NoRepeat(pageRequests \o subRequests)

\* the URLs of the requests of one enrichment pass
UrlsOf(ts) == [n \in 1..Len(ts) |-> ts[n].url]

\* C11: one enrichment pass requests each distinct URL once, however many
\* paths of the record carry it.
OneRequestPerDistinctUrl ==
    /\ NoRepeat(UrlsOf(tasks))
    /\ \A i \in 1..Len(enrLog) : NoRepeat(UrlsOf(enrLog[i].tasks))

ParentTables ==
    {"Company", "Address", "Customer", "Interpreter", "Requestor", "Visit"}

ChildTables == {"BookingRefs", "BookingRequirements"}

\* C12: within one record every statement on a referenced table (Company,
\* Address, Customer, Interpreter, Requestor, Visit) is issued before every
\* statement on Booking, and every statement on Booking before every
\* statement on BookingRefs and BookingRequirements.
ParentsWrittenFirst ==
    \A n, m \in 1..Len(stmts) :
        (/\ stmts[n].rec = stmts[m].rec
         /\ \/ stmts[n].table \in ParentTables /\ stmts[m].table = "Booking"
            \/ stmts[n].table = "Booking" /\ stmts[m].table \in ChildTables)
            => n < m

WrittenIn(k, t) ==
    \E n \in 1..Len(stmts) :
        stmts[n].rec = k /\ stmts[n].table = t /\ IsWrite(stmts[n])

\* a committed record wrote a referenced row, its booking and a child row
ParentBookingChildWritten ==
    \E k \in 1..Len(flats) :
       /\ outcome[k] = "committed"
       /\ WrittenIn(k, "Customer")
       /\ WrittenIn(k, "Booking")
       /\ WrittenIn(k, "BookingRefs")

Listed(t) == \E n \in 1..Len(TABLE_ORDER) : TABLE_ORDER[n] = t

PlaceOf(t) == CHOOSE n \in 1..Len(TABLE_ORDER) : TABLE_ORDER[n] = t

\* TABLE_ORDER lists the referenced tables before Booking and Booking
\* before its array-valued child tables
TableOrderRespectsReferences ==
    /\ \A t \in {"Customer", "Company", "Requestor", "Visit", "Interpreter"} :
          PlaceOf(t) < PlaceOf("Booking")
    /\ \A t \in {"BookingRef", "BookingRequirement"} :
          PlaceOf("Booking") < PlaceOf(t)

\* C13: the statements of a written record follow TABLE_ORDER: of two
\* listed tables the one listed earlier is written first, and TABLE_ORDER
\* lists referenced tables before Booking and Booking before its child
\* tables.
WritesFollowTableOrder ==
    \A k \in 1..Len(flats) :
        outcome[k] = "committed"
            => /\ \A n, m \in 1..Len(stmts) :
                     (/\ stmts[n].rec = k /\ stmts[m].rec = k
                      /\ Listed(stmts[n].table) /\ Listed(stmts[m].table)
                      /\ PlaceOf(stmts[n].table) < PlaceOf(stmts[m].table))
                         => n < m
               /\ TableOrderRespectsReferences

\* C14: a row candidate with a non-null key gets one existence check and
\* then exactly one write: an UPDATE when a row with the key was in the
\* table, which sets every non-key column of that row and leaves its key
\* and every other row alone, an INSERT of all columns otherwise.
ExactlyOneWritePerCandidate ==
    [][Len(stmts') > Len(stmts) =>
          LET new == SubSeq(stmts', Len(stmts) + 1, Len(stmts'))
              sel == new[1]
              t == sel.table
              pkc == pk_of_table(t)
              existed == \E n \in 1..Len(tx[t]) : get(tx[t][n], pkc) = sel.pk
          IN /\ sel.kind = "SELECT"
             /\ sel.pk /= None
             /\ IF ~sel.ok THEN Len(new) = 1
                ELSE /\ Len(new) = 2
                     /\ IsWrite(new[2])
                     /\ new[2].table = t
                     /\ new[2].pk = sel.pk
                     /\ new[2].kind = "UPDATE" <=> existed
                     /\ new[2].ok =>
                          /\ \A u \in Tables \ {t} : tx'[u] = tx[u]
                          /\ IF existed
                             THEN /\ Len(tx'[t]) = Len(tx[t])
                                  /\ \A n \in 1..Len(tx[t]) :
                                       IF get(tx[t][n], pkc) = sel.pk
                                       THEN \A c \in keys(sel.row) :
                                              get(tx'[t][n], c) = get(sel.row, c)
                                       ELSE tx'[t][n] = tx[t][n]
                             ELSE tx'[t] = Append(tx[t], sel.row)]_vars

\* both branches were taken: an INSERT, and an UPDATE in a table that
\* holds another row as well
InsertAndUpdateIssued ==
    \E n, m \in 1..Len(stmts) :
       /\ stmts[n].kind = "INSERT" /\ stmts[n].ok
       /\ stmts[m].kind = "UPDATE" /\ stmts[m].ok /\ stmts[m].before > 1

\* the flat-record path a mapping reads its key from, and the key it reads
\* for one record (idx = -1 for a non-indexed mapping)
PkPathOf(m) ==
    LET cm == TABLE_MAPPING[m].columns
    IN get(cm, find_pk_col(cm, entity_pk_names))
PkValueIn(k, m, idx) ==
    get(flats[k], IF idx = -1 THEN PkPathOf(m)
                  ELSE replace_i(PkPathOf(m), ToString(idx)))
CalledFor(k, p) ==
    WritePlan[p].guard = "" \/ has(flats[k], WritePlan[p].guard)
IssuedFor(k, m) == \E n \in 1..Len(stmts) : stmts[n].rec = k /\ stmts[n].mapping = m
WrittenFor(k, m) ==
    \E n \in 1..Len(stmts) :
        stmts[n].rec = k /\ stmts[n].mapping = m /\ IsWrite(stmts[n]) /\ stmts[n].ok

ArrayMappings == {WritePlan[p].mapping : p \in {q \in 1..Len(WritePlan) : WritePlan[q].kind = "array"}}

\* the smallest index whose key path is absent or null in record k
FirstGap(k, m) ==
    CHOOSE j \in 0..Len(flats[k]) :
        /\ PkValueIn(k, m, j) = None
        /\ \A i \in 0..(j - 1) : PkValueIn(k, m, i) /= None
WritesAt(k, m, i) ==
    {n \in 1..Len(stmts) : /\ stmts[n].rec = k /\ stmts[n].mapping = m
                           /\ stmts[n].idx = i /\ IsWrite(stmts[n]) /\ stmts[n].ok}

\* C16: an indexed mapping stops at the first gap: with j the smallest
\* index whose key path is absent or null, the loop never goes past index j,
\* no statement is issued for an index >= j, and a committed record has
\* exactly one write for each of the indices 0..j-1.
IndexedMappingStopsAtFirstGap ==
    /\ (dbPc = "loop" /\ step \in 1..Len(WritePlan) /\ WritePlan[step].kind = "array")
          => arr_i <= FirstGap(rec_k, WritePlan[step].mapping)
    /\ \A n \in 1..Len(stmts) :
          stmts[n].mapping \in ArrayMappings
             => stmts[n].idx \in 0..(FirstGap(stmts[n].rec, stmts[n].mapping) - 1)
    /\ \A k \in 1..Len(flats) : \A m \in ArrayMappings :
          outcome[k] = "committed"
             => \A i \in 0..(FirstGap(k, m) - 1) : Cardinality(WritesAt(k, m, i)) = 1

\* a committed record with the key path at index 0 and at index 2 but not
\* at index 1, written at index 0
GapRecordCommitted ==
    \E k \in 1..Len(flats) : \E m \in ArrayMappings :
       /\ outcome[k] = "committed"
       /\ PkValueIn(k, m, 0) /= None
       /\ PkValueIn(k, m, 1) = None
       /\ PkValueIn(k, m, 2) /= None
       /\ WritesAt(k, m, 0) /= {}
       /\ WritesAt(k, m, 2) = {}

\* ------------------------------------------------------------------------
\* Properties of the Flattener (SpecFlatten)
\* ------------------------------------------------------------------------
IsContainer(x) == isinstance_dict(x) \/ isinstance_list(x)

\* C17: every value of the map flatten_dict returns is a scalar or null:
\* no object and no array remains as a value.
FlatValuesAreScalars ==
    flatPc = "returned" =>
        \A n \in 1..Len(flatOut) : ~IsContainer(flatOut[n][2])

\* the scalar leaves of a value tree, each with the path that joins the
\* object keys and array indices on its route with "."
RECURSIVE LeafPaths(_, _)
LeafPaths(x, path) ==
    LET sub(seg) == IF path = "" THEN seg ELSE path \o "." \o seg
    IN CASE isinstance_dict(x) ->
               UNION {LeafPaths(x.v[n][2], sub(x.v[n][1])) : n \in 1..Len(x.v)}
         [] isinstance_list(x) ->
               UNION {LeafPaths(x.v[n], sub(ToString(n - 1))) : n \in 1..Len(x.v)}
         [] OTHER -> {<<path, x>>}

RECURSIVE LeafCount(_)
RECURSIVE LeafCountSeq(_, _)
LeafCountSeq(xs, n) ==
    IF n > Len(xs) THEN 0 ELSE LeafCount(xs[n]) + LeafCountSeq(xs, n + 1)
LeafCount(x) ==
    CASE isinstance_dict(x) -> LeafCountSeq([n \in 1..Len(x.v) |-> x.v[n][2]], 1)
      [] isinstance_list(x) -> LeafCountSeq(x.v, 1)
      [] OTHER -> 1

\* C18: the map flatten_dict returns has one entry per scalar leaf of the
\* input: as many entries as leaves, each leaf at its dot-joined path with
\* its value, and no path twice.
FlattenPreservesLeaves ==
    flatPc = "returned" =>
        /\ Len(flatOut) = LeafCount(Obj(flatIn))
        /\ {<<flatOut[n][1], flatOut[n][2]>> : n \in 1..Len(flatOut)}
              = LeafPaths(Obj(flatIn), "")
        /\ \A n, m \in 1..Len(flatOut) : flatOut[n][1] = flatOut[m][1] => n = m

\* ------------------------------------------------------------------------
\* The join of one enrichment pass (SpecEnrich)
\* ------------------------------------------------------------------------
Pending(ts) == {n \in 1..Len(ts) : ts[n].st = "pending"}
Failed(ts) == {n \in 1..Len(ts) : ts[n].st = "settled" /\ ts[n].outcome /= "ok"}

\* C20: one record's enrichment pass is a wait-for-all join: while a request
\* of the pass is pending the pass does not return and no request is
\* dropped or altered by the settling of another, whatever failed before;
\* the pass returns with every request it started settled, the results
\* being those the requests settled with.
WaitForAllJoin ==
    [][/\ Pending(tasks) /= {} =>
            /\ enrPc' = "gather"
            /\ Len(enrLog') = Len(enrLog)
            /\ Len(tasks') = Len(tasks)
            /\ Cardinality(Pending(tasks) \ Pending(tasks')) <= 1
            /\ \A n \in 1..Len(tasks) :
                  /\ tasks'[n].url = tasks[n].url
                  /\ tasks'[n].key = tasks[n].key
                  /\ tasks[n].st = "settled" => tasks'[n] = tasks[n]
       /\ Len(enrLog') > Len(enrLog) =>
            /\ Pending(tasks) = {}
            /\ enrLog'[Len(enrLog')].tasks = tasks]_vars

\* a pass returned with one request failed and another succeeded
JoinedWithFailureAndSuccess ==
    \E i \in 1..Len(enrLog) :
        LET ts == enrLog[i].tasks
        IN /\ Failed(ts) /= {}
           /\ \E n \in 1..Len(ts) : ts[n].st = "settled" /\ ts[n].outcome = "ok"

\* ------------------------------------------------------------------------
\* Status handling of the sub-resource fetch (SpecEnrich)
\* ------------------------------------------------------------------------
\* C21: the body of a sub-resource response whose status is not 2xx is
\* never flattened and merged: no entry of that body is in the extra map
\* of the record, nor in the record after the merge.
NonSuccessBodyNeverMerged ==
    \A i \in 1..Len(enrLog) :
        \A n \in 1..Len(enrLog[i].tasks) :
            enrLog[i].tasks[n].outcome = "http_error"
               => LET body == flatten_dict(enrLog[i].tasks[n].res.v, "")
                  IN \A b \in 1..Len(body) :
                        /\ get(enrLog[i].extra, body[b][1]) /= body[b][2]
                        /\ get(bookings[i], body[b][1]) /= body[b][2]

\* ------------------------------------------------------------------------
\* The transaction of one record (SpecDb)
\* ------------------------------------------------------------------------
LifecycleSteps ==
    {<<"pending", "writing">>, <<"writing", "committed">>,
     <<"writing", "rolledback">>}

\* C22: a record goes pending -> writing -> committed | rolledback and
\* never leaves a terminal state; at most one record is writing, and only
\* when every record before it is terminal; statements are issued only for
\* the record that is writing; a transaction starts with nothing open from
\* an earlier record and ends with nothing left open, so a commit or a
\* rollback covers the writes of one record only.
RecordLifecycle ==
    [][/\ \A k \in 1..Len(flats) :
            /\ outcome'[k] /= outcome[k]
                  => <<outcome[k], outcome'[k]>> \in LifecycleSteps
            /\ outcome'[k] = "writing"
                  => /\ \A j \in 1..(k - 1) : outcome'[j] \in Terminal
                     /\ \A j \in (k + 1)..Len(flats) : outcome'[j] = "pending"
            /\ (outcome[k] = "pending" /\ outcome'[k] = "writing")
                  => tx = committed
            /\ (outcome[k] = "writing" /\ outcome'[k] \in Terminal)
                  => tx' = committed'
       /\ \A n \in (Len(stmts) + 1)..Len(stmts') :
            outcome[stmts'[n].rec] = "writing"]_vars

\* one record's transaction was committed and a later one's rolled back,
\* each after a write of its own
CommittedThenRolledBack ==
    \E k, j \in 1..Len(flats) :
       /\ k < j
       /\ outcome[k] = "committed"
       /\ outcome[j] = "rolledback"
       /\ \E n, m \in 1..Len(stmts) :
             /\ stmts[n].rec = k /\ IsWrite(stmts[n]) /\ stmts[n].ok
             /\ stmts[m].rec = j /\ IsWrite(stmts[m]) /\ stmts[m].ok

\* ------------------------------------------------------------------------
\* Retries (SpecBulk)
\* ------------------------------------------------------------------------
\* C23: no failed operation is retried: once the statement for a row has
\* failed, no later statement is sent for that row.
NoFailedStatementReissued ==
    \A n, m \in 1..Len(bulkLog) :
        n < m => bulkLog[n].failed \cap bulkLog[m].rows = {}

\* ------------------------------------------------------------------------
\* The loop over date windows (SpecLoop)
\* ------------------------------------------------------------------------
\* C24: when the storage connection cannot be established the run is
\* aborted: the window whose call of main() found no connection is the
\* last window main() is called for.
ConnectionFailureAbortsRun ==
    \A n \in 1..Len(windows) :
        windows[n].ended = "noconn" => n = Len(windows)

\* ------------------------------------------------------------------------
\* Requests in flight (SpecEnrich)
\* ------------------------------------------------------------------------
\* the most URIs one record of the input holds
MostUris ==
    CHOOSE c \in 0..10 :
        /\ \A r \in RawSamples : Len(discover_uris(r)) <= c
        /\ \E r \in RawSamples : Len(discover_uris(r)) = c

RECURSIVE HttpStrings(_)
HttpStrings(x) ==
    CASE isinstance_dict(x) -> UNION {HttpStrings(x.v[n][2]) : n \in 1..Len(x.v)}
      [] isinstance_list(x) -> UNION {HttpStrings(x.v[n]) : n \in 1..Len(x.v)}
      [] isinstance_str(x) /\ startswith_http(x.v) -> {x.v}
      [] OTHER -> {}

\* C26: discovery is recursive for both shapes of reference: every string
\* field of the record that starts with an absolute-URL scheme, the uri
\* field of an object or any other field, at any depth, is requested in
\* the record's enrichment pass.
EveryReferenceFetched ==
    \A i \in 1..Len(enrLog) :
        HttpStrings(Obj(rawRecords[i]))
            \subseteq {enrLog[i].tasks[n].url : n \in 1..Len(enrLog[i].tasks)}

\* ------------------------------------------------------------------------
\* Indexed mappings (SpecDb)
\* ------------------------------------------------------------------------
\* the mappings whose source paths hold the "{i}" placeholder
IndexedMappings ==
    {m \in DOMAIN TABLE_MAPPING :
        \E n \in 1..Len(TABLE_MAPPING[m].columns) :
            replace_i(TABLE_MAPPING[m].columns[n][2], "0")
                /= TABLE_MAPPING[m].columns[n][2]}

\* C27: every mapping with the "{i}" placeholder is projected per index: a
\* committed record that holds items 0..n-1 of the mapping with non-null
\* keys has one row written for each index.
IndexedMappingsProjected ==
    \A k \in 1..Len(flats) : \A m \in IndexedMappings :
        outcome[k] = "committed"
           => \A i \in 0..(FirstGap(k, m) - 1) :
                 Cardinality(WritesAt(k, m, i)) = 1

\* ------------------------------------------------------------------------
\* What the tables hold after a run (SpecDb)
\* ------------------------------------------------------------------------
\* the value the mapping of statement n projects for column c from the
\* record the statement belongs to
ProjectedValue(n, c) ==
    LET path == get(TABLE_MAPPING[stmts[n].mapping].columns, c)
    IN get(flats[stmts[n].rec],
           IF stmts[n].idx = -1 THEN path
           ELSE replace_i(path, ToString(stmts[n].idx)))

ColumnsOf(n) == keys(TABLE_MAPPING[stmts[n].mapping].columns)

\* the writes of committed records to the row of table t with key pk
CommittedWrites(t, pk) ==
    {n \in 1..Len(stmts) :
        /\ IsWrite(stmts[n]) /\ stmts[n].ok
        /\ stmts[n].table = t /\ stmts[n].pk = pk
        /\ outcome[stmts[n].rec] = "committed"}

LastOf(S) == CHOOSE n \in S : \A m \in S : m <= n

\* C28: last committed writer wins per key: every row of the committed
\* tables holds, in each column of the last candidate a committed record
\* produced for its key, the value that candidate projects from its
\* record, null where the record lacks the source path; and every key a
\* committed record wrote has its row.
LastCommittedWriterWins ==
    \A t \in Tables :
       /\ \A r \in 1..Len(committed[t]) :
             LET S == CommittedWrites(t, get(committed[t][r], pk_of_table(t)))
             IN /\ S /= {}
                /\ \A c \in ColumnsOf(LastOf(S)) :
                      get(committed[t][r], c) = ProjectedValue(LastOf(S), c)
       /\ \A n \in 1..Len(stmts) :
             n \in CommittedWrites(t, stmts[n].pk)
                => \E r \in 1..Len(committed[t]) :
                      get(committed[t][r], pk_of_table(t)) = stmts[n].pk

\* the run is over and a committed record stored null in a column where an
\* earlier committed record had stored a value for the same key
NullOverwroteValue ==
    /\ dbPc = "done"
    /\ \E n, m \in 1..Len(stmts) : \E c \in ColumnsOf(n) :
          /\ n < m
          /\ stmts[n].rec /= stmts[m].rec
          /\ m = LastOf(CommittedWrites(stmts[n].table, stmts[n].pk) \cup {n})
          /\ n \in CommittedWrites(stmts[n].table, stmts[n].pk)
          /\ ProjectedValue(n, c) /= None
          /\ ProjectedValue(m, c) = None
          /\ \E r \in 1..Len(committed[stmts[n].table]) :
                /\ get(committed[stmts[n].table][r], pk_of_table(stmts[n].table))
                      = stmts[n].pk
                /\ get(committed[stmts[n].table][r], c) = None

\* the windows main() was called for tile the range from 2019-01-01 on:
\* each starts where the one before ended, none is longer than 180 days,
\* and their number is bounded by the length of the range
Tiled ==
    /\ \A n \in 1..Len(windows) :
          /\ windows[n].start = IF n = 1 THEN 0 ELSE windows[n - 1].end
          /\ windows[n].start <= windows[n].end
          /\ windows[n].end - windows[n].start <= 180 * 86400
          /\ windows[n].end <= strftime(current_time)
    /\ (Len(windows) - 1) * SixMonths < current_time \/ windows = <<>>
    /\ loopPc = "done" =>
          IF current_time > 0
          THEN /\ windows /= <<>>
               /\ windows[Len(windows)].end = strftime(current_time)
          ELSE windows = <<>>

\* C29: run_main_loop tiles the time range without gap or overlap, in
\* windows of at most 180 days, the last one ending at the current time
\* taken when the loop started, and the loop ends.
WindowsTileTheRange ==
    /\ []Tiled
    /\ <>(loopPc \in {"done", "raised"})

\* the loop ended after three windows, the last one shorter than 180 days
ThreeWindowsDone ==
    /\ loopPc = "done"
    /\ Len(windows) = 3
    /\ windows[3].end - windows[3].start < 180 * 86400
    /\ windows[2].end - windows[2].start = 180 * 86400

\* ------------------------------------------------------------------------
\* Termination of the static pagination (SpecPageFair)
\* ------------------------------------------------------------------------
OkRequests == SelectSeq(pageRequests, LAMBDA u : pages[u].status = OK)

\* fetched_urls holds the URLs answered with 200 and no others, none of
\* them was requested twice, a request that failed is the last one, and
\* what is returned is what the answered pages held, in order
StaticFetchedOnce ==
    /\ fetched_urls = {OkRequests[n] : n \in 1..Len(OkRequests)}
    /\ NoRepeat(pageRequests)
    /\ \A n \in 1..Len(pageRequests) :
          pages[pageRequests[n]].status /= OK => n = Len(pageRequests)
    /\ all_bookings = ConcatItems(OkRequests)
    /\ pgPc = "returned" => pgResult = [kind |-> "list", items |-> all_bookings]

\* C30: in the static pipeline fetch_booking_data ends on every page
\* graph, cyclic ones included: a next link to a URL already fetched ends
\* the pagination with the items accumulated so far, a URL enters
\* fetched_urls only after a 200 response, and no URL is fetched twice.
StaticFetchTerminates ==
    /\ [](variant = "static" => StaticFetchedOnce)
    /\ (variant = "static") ~> (pgPc = "returned")

\* the static fetch returned because the next link of the second page led
\* back to a page already fetched
CycleEndedPagination ==
    /\ variant = "static"
    /\ pgPc = "returned"
    /\ Len(pageRequests) >= 2
    /\ next_url /= NoNext
    /\ next_url \in fetched_urls
    /\ pgResult.items /= <<>>

====
